---- MODULE Spec2Model ----
(***************************************************************************)
(* A model of the go-json codec: the decoder (UnmarshalValue and the       *)
(* productions it dispatches to) reading from a bufio.Reader, and the      *)
(* encoder (MarshalValue and the writers it dispatches to) writing to a    *)
(* bufio.Writer.                                                           *)
(*                                                                         *)
(* Text is a sequence of characters, each character a one-element string.  *)
(* Every character of the model's alphabet is ASCII, so one character is   *)
(* one byte and one rune.  An error is the chain of its messages, outermost*)
(* first (fmt.Errorf with %w puts a message in front of the wrapped chain);*)
(* the empty chain is Go's nil error.                                      *)
(***************************************************************************)
EXTENDS Integers, Sequences, FiniteSets, TLC

VARIABLES reader, writer, value, err, rune, ref, origin, doc, pc, loop

vars == <<reader, writer, value, err, rune, ref, origin, doc, pc, loop>>

(***************************************************************************)
(* Bounds of the model.                                                    *)
(***************************************************************************)
\* Size of the bufio.Reader's buffer (bufio.NewReaderSize; 16 is the
\* smallest size bufio allows, bufio.NewReader uses 4096).
ReaderSize == 16
\* Longest number text drawn over NumberAlphabet.
MaxTokenLen == 4
\* Most elements of a generated array text, most members of an object text.
MaxItems == 2
\* Largest number of bytes after which the writer's sink may start failing.
MaxFailAt == 7
\* Longest written text that is read back.
MaxTextLen == 21
\* Longest string text drawn over StringAlphabet.
MaxStringLen == 4
\* Longest given text on which a production is run one iteration at a time.
MaxStepLen == 8

(***************************************************************************)
(* Characters and small helpers.                                           *)
(***************************************************************************)
\* The rune ReadRune returns together with an error.
NUL == "NUL"
\* Backspace (Go's '\b'), which has no escape in a TLA+ string.
BS == "BS"

NoErr == << >>
EOF == <<"EOF">>
ErrInvalidUnreadRune == <<"bufio: invalid use of UnreadRune">>

Wrap(msg, e) == <<msg>> \o e

Min(a, b) == IF a < b THEN a ELSE b

Digits == {"0", "1", "2", "3", "4", "5", "6", "7", "8", "9"}

DigitValue(c) ==
    CASE c = "0" -> 0 [] c = "1" -> 1 [] c = "2" -> 2 [] c = "3" -> 3
      [] c = "4" -> 4 [] c = "5" -> 5 [] c = "6" -> 6 [] c = "7" -> 7
      [] c = "8" -> 8 [] c = "9" -> 9

DigitChar(d) ==
    CASE d = 0 -> "0" [] d = 1 -> "1" [] d = 2 -> "2" [] d = 3 -> "3"
      [] d = 4 -> "4" [] d = 5 -> "5" [] d = 6 -> "6" [] d = 7 -> "7"
      [] d = 8 -> "8" [] d = 9 -> "9"

\* ARABIC-INDIC DIGIT THREE, a decimal digit (category Nd) outside ASCII.
ArabicThree == "U+0663"

\* unicode.IsDigit on the model's alphabet.
IsDigit(r) == r \in Digits \cup {ArabicThree}

isJsonWhitespace(r) == r = " " \/ r = "\n" \/ r = "\r" \/ r = "\t"

TRUE_STRING == <<"t", "r", "u", "e">>
FALSE_STRING == <<"f", "a", "l", "s", "e">>
NULL_STRING == <<"n", "u", "l", "l">>

(***************************************************************************)
(* Go values held in an interface{}.                                       *)
(***************************************************************************)
NilValue == [kind |-> "nil"]
BoolValue(b) == [kind |-> "bool", b |-> b]
\* Go's int: what the untyped constant 0 of an error return becomes.
IntValue(i) == [kind |-> "int", i |-> i]
\* An int64, held as its sign and its decimal digits without leading zeros
\* (zero is "0", never negative), so that its 64 bits are kept exactly.
Int64Of(neg, digits) == [kind |-> "int64", neg |-> neg, digits |-> digits]
\* A float64 that is the nearest double of the decimal (-1)^neg * m * 10^e,
\* m without trailing zeros (m = 0 has e = 0): distinct such decimals of few
\* digits are distinct doubles.
Float64Value(neg, m, e) == [kind |-> "float64", neg |-> neg, m |-> m, e |-> e]
StringValue(s) == [kind |-> "string", s |-> s]
SliceValue(xs) == [kind |-> "slice", elems |-> xs]
\* entries: a function from keys (texts) to values.
MapValue(f) == [kind |-> "map", entries |-> f]

Result(v, e, b) == [value |-> v, err |-> e, reader |-> b]

(***************************************************************************)
(* bufio.Reader over an in-memory source (strings.NewReader).  data is the *)
(* source's whole content, r the number of characters consumed, w the      *)
(* number of characters the buffer has taken from the source so far, and   *)
(* lastRuneSize the size of the last rune read (-1: no rune to unread).    *)
(* unreads and failedUnreads record the history of the reader: the number  *)
(* of calls of UnreadRune that pushed a rune back, and of those that       *)
(* returned ErrInvalidUnreadRune.                                          *)
(***************************************************************************)
NewReader(text) ==
    [data |-> text, r |-> 0, w |-> 0, lastRuneSize |-> -1,
     unreads |-> 0, failedUnreads |-> 0]

\* One read of the source into the emptied buffer.
Fill(b) == [b EXCEPT !.w = Min(Len(b.data), b.r + ReaderSize)]

ReadRune(b) ==
    LET b1 == IF b.r = b.w THEN Fill(b) ELSE b
    IN  IF b1.r = b1.w
        THEN [r |-> NUL, err |-> EOF, reader |-> [b1 EXCEPT !.lastRuneSize = -1]]
        ELSE [r |-> b1.data[b1.r + 1], err |-> NoErr,
              reader |-> [b1 EXCEPT !.r = @ + 1, !.lastRuneSize = 1]]

UnreadRune(b) ==
    IF b.lastRuneSize < 0 \/ b.r < b.lastRuneSize
    THEN [err |-> ErrInvalidUnreadRune,
          reader |-> [b EXCEPT !.failedUnreads = @ + 1]]
    ELSE [err |-> NoErr,
          reader |-> [b EXCEPT !.r = @ - b.lastRuneSize, !.lastRuneSize = -1,
                               !.unreads = @ + 1]]

\* Read(p) with len(p) = n: what the buffer holds, at most n bytes, after at
\* most one read of the source; n may come back smaller than len(p).
Read(b, n) ==
    LET b1 == IF b.r = b.w THEN Fill(b) ELSE b
        k  == Min(n, b1.w - b1.r)
    IN  IF b1.r = b1.w
        THEN [p |-> << >>, n |-> 0, err |-> EOF, reader |-> b1]
        ELSE [p |-> SubSeq(b1.data, b1.r + 1, b1.r + k), n |-> k, err |-> NoErr,
              reader |-> [b1 EXCEPT !.r = @ + k, !.lastRuneSize = -1]]

(***************************************************************************)
(* strconv: the conversions the codec calls.                               *)
(***************************************************************************)
RECURSIVE DigitsToNat(_)
\* The number a text of decimal digits writes.
DigitsToNat(s) ==
    IF s = << >> THEN 0
    ELSE 10 * DigitsToNat(SubSeq(s, 1, Len(s) - 1)) + DigitValue(s[Len(s)])

RECURSIVE NatToDigits(_)
\* The decimal digits of n, without leading zeros ("0" for 0).
NatToDigits(n) ==
    IF n < 10 THEN <<DigitChar(n)>>
    ELSE NatToDigits(n \div 10) \o <<DigitChar(n % 10)>>

AllDigits(s) == \A i \in 1..Len(s) : s[i] \in Digits

\* The first index of s holding a character of set cs, or 0.
IndexAny(s, cs) ==
    IF \E i \in 1..Len(s) : s[i] \in cs
    THEN CHOOSE i \in 1..Len(s) : s[i] \in cs /\ \A j \in 1..(i - 1) : s[j] \notin cs
    ELSE 0

ContainsAny(s, cs) == IndexAny(s, cs) # 0

\* Go's int64(i) for a small number i.
Int64Value(i) == Int64Of(i < 0, NatToDigits(IF i < 0 THEN 0 - i ELSE i))

RECURSIVE StripZeros(_)
\* Digits without their leading zeros ("0" for zero).
StripZeros(s) == IF Len(s) > 1 /\ s[1] = "0" THEN StripZeros(Tail(s)) ELSE s

\* a > b as numbers, for digit texts without leading zeros.
DigitsGreater(a, b) ==
    \/ Len(a) > Len(b)
    \/ /\ Len(a) = Len(b)
       /\ \E i \in 1..Len(a) :
            /\ DigitValue(a[i]) > DigitValue(b[i])
            /\ \A j \in 1..(i - 1) : a[j] = b[j]

\* 2^63 - 1 and 2^63.
MaxInt64Digits ==
    <<"9", "2", "2", "3", "3", "7", "2", "0", "3", "6", "8", "5", "4", "7", "7", "5",
      "8", "0", "7">>
MinInt64Digits ==
    <<"9", "2", "2", "3", "3", "7", "2", "0", "3", "6", "8", "5", "4", "7", "7", "5",
      "8", "0", "8">>

\* strconv.ParseInt(s, 10, 64): an optional sign, then one or more digits,
\* the number within int64.
ParseInt(s) ==
    LET signed == s # << >> /\ s[1] \in {"+", "-"}
        neg    == signed /\ s[1] = "-"
        body   == IF signed THEN Tail(s) ELSE s
        digits == StripZeros(body)
    IN  IF body = << >> \/ ~AllDigits(body)
        THEN [value |-> Int64Value(0), err |-> <<"strconv.ParseInt: invalid syntax">>]
        ELSE IF DigitsGreater(digits, IF neg THEN MinInt64Digits ELSE MaxInt64Digits)
        THEN [value |-> Int64Value(0), err |-> <<"strconv.ParseInt: value out of range">>]
        ELSE [value |-> Int64Of(neg /\ digits # <<"0">>, digits), err |-> NoErr]

RECURSIVE Normalize(_, _, _)
\* The decimal m * 10^e with m's trailing zeros moved into the exponent.
Normalize(neg, m, e) ==
    IF m = 0 THEN Float64Value(neg, 0, 0)
    ELSE IF m % 10 = 0 THEN Normalize(neg, m \div 10, e + 1)
    ELSE Float64Value(neg, m, e)

\* The first four decimal digits of m > 0 (zeros added to a shorter m).
Lead4(m) == DigitsToNat(SubSeq(NatToDigits(m) \o <<"0", "0", "0">>, 1, 4))

\* strconv.ParseFloat(s, 64) on decimal texts: an optional sign, digits with
\* an optional point (at least one digit), an optional exponent e|E with an
\* optional sign and at least one digit.  A decimal above the largest double
\* (1.7976931348623157e308) is a range error with value Inf (written here as
\* 1e999); one below the smallest rounds to zero.  (The texts of the model
\* are short: each other one is exactly a double's shortest decimal.)
ParseFloat(s) ==
    LET signed == s # << >> /\ s[1] \in {"+", "-"}
        neg    == signed /\ s[1] = "-"
        body   == IF signed THEN Tail(s) ELSE s
        ei     == IndexAny(body, {"e", "E"})
        mant   == IF ei = 0 THEN body ELSE SubSeq(body, 1, ei - 1)
        expo   == IF ei = 0 THEN << >> ELSE SubSeq(body, ei + 1, Len(body))
        pi     == IndexAny(mant, {"."})
        whole  == IF pi = 0 THEN mant ELSE SubSeq(mant, 1, pi - 1)
        frac   == IF pi = 0 THEN << >> ELSE SubSeq(mant, pi + 1, Len(mant))
        esign  == expo # << >> /\ expo[1] \in {"+", "-"}
        edigs  == IF esign THEN Tail(expo) ELSE expo
        eval   == IF ei = 0 THEN 0
                  ELSE IF esign /\ expo[1] = "-" THEN 0 - DigitsToNat(edigs)
                  ELSE DigitsToNat(edigs)
        ok     == /\ AllDigits(whole) /\ AllDigits(frac)
                  /\ whole \o frac # << >>
                  /\ (ei # 0 => edigs # << >> /\ AllDigits(edigs))
    IN  IF ~ok
        THEN [value |-> Float64Value(FALSE, 0, 0),
              err |-> <<"strconv.ParseFloat: invalid syntax">>]
        ELSE LET v   == Normalize(neg, DigitsToNat(whole \o frac), eval - Len(frac))
                 sci == v.e + Len(NatToDigits(v.m)) - 1
             IN  IF v.m # 0 /\ (sci > 308 \/ (sci = 308 /\ Lead4(v.m) >= 1798))
                 THEN [value |-> Float64Value(neg, 1, 999),
                       err |-> <<"strconv.ParseFloat: value out of range">>]
                 ELSE IF v.m # 0 /\ sci < -324
                 THEN [value |-> Float64Value(neg, 0, 0), err |-> NoErr]
                 ELSE [value |-> v, err |-> NoErr]

\* strconv.FormatInt(i, 10).
FormatInt(i) == IF i.neg THEN <<"-">> \o i.digits ELSE i.digits

Zeros(n) == [i \in 1..n |-> "0"]

\* strconv.FormatFloat(f, 'f', -1, 64): the shortest digits that read back
\* as f, written without an exponent.
FormatFloat(f) ==
    LET ds == NatToDigits(f.m)
        n  == Len(ds)
        p  == 0 - f.e
        body == IF f.e >= 0 THEN (IF f.m = 0 THEN ds ELSE ds \o Zeros(f.e))
                ELSE IF n > p
                     THEN SubSeq(ds, 1, n - p) \o <<".">> \o SubSeq(ds, n - p + 1, n)
                     ELSE <<"0", ".">> \o Zeros(p - n) \o ds
    IN  IF f.neg THEN <<"-">> \o body ELSE body

HexDigits == Digits \cup {"a", "b", "c", "d", "e", "f", "A", "B", "C", "D", "E", "F"}

HexValue(c) ==
    CASE c \in Digits -> DigitValue(c)
      [] c \in {"a", "A"} -> 10 [] c \in {"b", "B"} -> 11 [] c \in {"c", "C"} -> 12
      [] c \in {"d", "D"} -> 13 [] c \in {"e", "E"} -> 14 [] c \in {"f", "F"} -> 15

RECURSIVE HexToNat(_)
HexToNat(s) ==
    IF s = << >> THEN 0
    ELSE 16 * HexToNat(SubSeq(s, 1, Len(s) - 1)) + HexValue(s[Len(s)])

\* strconv.ParseInt(s, 16, 32): an optional sign, then one or more hex digits
\* (at most four characters here, so never out of range).
ParseHex(s) ==
    LET signed == s # << >> /\ s[1] \in {"+", "-"}
        body   == IF signed THEN Tail(s) ELSE s
    IN  IF body = << >> \/ \E i \in 1..Len(body) : body[i] \notin HexDigits
        THEN [value |-> 0, err |-> <<"strconv.ParseInt: invalid syntax">>]
        ELSE [value |-> IF signed /\ s[1] = "-" THEN 0 - HexToNat(body)
                        ELSE HexToNat(body),
              err |-> NoErr]

\* rune(hexValue) as a character of the model: the code points the model's
\* texts can write; a negative value is no code point and is written as
\* U+FFFD by strings.Builder.WriteRune.
RuneOf(code) ==
    CASE code < 0 -> "U+FFFD"
      [] code = 0 -> "U+0000"
      [] code = 10 -> "\n"
      [] code = 32 -> " "
      [] code = 34 -> "\""
      [] code = 65 -> "A"
      [] code = 97 -> "a"
      [] code = 4113 -> "U+1011"
      [] OTHER -> "U+XXXX"

(***************************************************************************)
(* The decoder.  Every production returns [value, err, reader]: what Go    *)
(* returns, and the reader as the call leaves it.  A for loop is an        *)
(* operator XIter that runs one iteration on the loop's variables l (done  *)
(* says that the iteration left the loop or returned) and an operator      *)
(* XLoop that iterates until done; XStart is the production up to its loop *)
(* and XAfter the production from the end of its loop on.                  *)
(***************************************************************************)
WhitespaceStart(b) == [done |-> FALSE, eof |-> FALSE, reader |-> b]

\* One iteration of the for loop of UnmarshalWhitespace.
WhitespaceIter(l) ==
    LET Got(rr) ==
          IF rr.err = EOF THEN [done |-> TRUE, eof |-> TRUE, reader |-> rr.reader]
          ELSE [done |-> ~isJsonWhitespace(rr.r), eof |-> FALSE, reader |-> rr.reader]
    IN  Got(ReadRune(l.reader))

RECURSIVE WhitespaceLoop(_)
WhitespaceLoop(l) == IF l.done THEN l ELSE WhitespaceLoop(WhitespaceIter(l))

\* UnmarshalWhitespace without its UnreadRune: the rune that ends the run of
\* whitespace stays consumed.
UnmarshalWhitespaceNoUnread(b) ==
    LET After(l) == [err |-> NoErr, reader |-> l.reader]
    IN  After(WhitespaceLoop(WhitespaceStart(b)))

\* UnmarshalWhitespace without its test of eof: the rune is pushed back at
\* end of stream too.
UnmarshalWhitespaceUnreadsAtEOF(b) ==
    LET Unread(u) ==
          IF u.err # NoErr
          THEN [err |-> Wrap("failed to unread rune", u.err), reader |-> u.reader]
          ELSE [err |-> NoErr, reader |-> u.reader]
        After(l) == Unread(UnreadRune(l.reader))
    IN  After(WhitespaceLoop(WhitespaceStart(b)))

WhitespaceAfter(l) ==
    LET Unread(u) ==
          IF u.err # NoErr
          THEN [err |-> Wrap("failed to unread rune", u.err), reader |-> u.reader]
          ELSE [err |-> NoErr, reader |-> u.reader]
    IN  IF ~l.eof THEN Unread(UnreadRune(l.reader))
        ELSE [err |-> NoErr, reader |-> l.reader]

UnmarshalWhitespace(b) == WhitespaceAfter(WhitespaceLoop(WhitespaceStart(b)))

UnmarshalNull(b) ==
    LET Got(rd) ==
          IF rd.err # NoErr
          THEN Result(BoolValue(FALSE),
                      Wrap("failed to read chars while parsing null", rd.err), rd.reader)
          ELSE IF rd.n # 4
          THEN Result(BoolValue(FALSE),
                      <<"failed to read all 4 chars while parsing null">>, rd.reader)
          ELSE IF rd.p # NULL_STRING
          THEN Result(NilValue, <<"could not Unmarshal null">>, rd.reader)
          ELSE Result(NilValue, NoErr, rd.reader)
    IN  Got(Read(b, 4))

UnmarshalTrue(b) ==
    LET Got(rd) ==
          IF rd.err # NoErr
          THEN Result(BoolValue(FALSE),
                      Wrap("failed to read 4 chars while parsing true", rd.err), rd.reader)
          ELSE IF rd.n # 4
          THEN Result(BoolValue(FALSE),
                      <<"failed to read all 4 chars while parsing true">>, rd.reader)
          ELSE IF rd.p # TRUE_STRING
          THEN Result(BoolValue(FALSE), <<"could not Unmarshal true">>, rd.reader)
          ELSE Result(BoolValue(TRUE), NoErr, rd.reader)
    IN  Got(Read(b, 4))

UnmarshalFalse(b) ==
    LET Got(rd) ==
          IF rd.err # NoErr
          THEN Result(BoolValue(FALSE),
                      Wrap("failed to read 5 chars while parsing false", rd.err), rd.reader)
          ELSE IF rd.n # 5
          THEN Result(BoolValue(FALSE),
                      <<"failed to read all 5 chars while parsing false">>, rd.reader)
          ELSE IF rd.p # FALSE_STRING
          THEN Result(BoolValue(FALSE), <<"could not Unmarshal false">>, rd.reader)
          ELSE Result(BoolValue(FALSE), NoErr, rd.reader)
    IN  Got(Read(b, 5))

\* What one pass through the switch of UnmarshalNumber's loop leaves.
Go(s) == [state |-> s, validEnd |-> FALSE, invalidTransition |-> FALSE]
ValidEnd(s) == [state |-> s, validEnd |-> TRUE, invalidTransition |-> FALSE]
InvalidTransition(s) == [state |-> s, validEnd |-> FALSE, invalidTransition |-> TRUE]

\* The switch of UnmarshalNumber's loop with case 5 taken for a state in
\* which the number may end: after the '.', end of stream or a rune that is
\* no digit is a valid end.
NumberStepLaxPoint(state, eof, r) ==
    CASE state = 0 ->
           IF eof THEN InvalidTransition(0) ELSE IF r = "-" THEN Go(1)
           ELSE IF r = "0" THEN Go(2) ELSE IF IsDigit(r) THEN Go(3)
           ELSE InvalidTransition(0)
      [] state = 1 ->
           IF eof THEN InvalidTransition(1) ELSE IF r = "0" THEN Go(2)
           ELSE IF IsDigit(r) THEN Go(3) ELSE InvalidTransition(1)
      [] state = 2 ->
           IF eof THEN ValidEnd(2) ELSE IF r = "." THEN Go(5)
           ELSE IF r = "e" \/ r = "E" THEN Go(7) ELSE ValidEnd(2)
      [] state \in {3, 4} ->
           IF eof THEN ValidEnd(state) ELSE IF IsDigit(r) THEN Go(4)
           ELSE IF r = "." THEN Go(5)
           ELSE IF r = "e" \/ r = "E" THEN Go(7) ELSE ValidEnd(state)
      [] state = 5 ->
           IF eof THEN ValidEnd(5) ELSE IF IsDigit(r) THEN Go(6)
           ELSE ValidEnd(5)
      [] state = 6 ->
           IF eof THEN ValidEnd(6) ELSE IF IsDigit(r) THEN Go(6)
           ELSE IF r = "e" \/ r = "E" THEN Go(7) ELSE ValidEnd(6)
      [] state = 7 ->
           IF eof THEN InvalidTransition(7) ELSE IF r = "-" \/ r = "+" THEN Go(8)
           ELSE IF IsDigit(r) THEN Go(9) ELSE InvalidTransition(7)
      [] state = 8 ->
           IF eof THEN InvalidTransition(8) ELSE IF IsDigit(r) THEN Go(9)
           ELSE InvalidTransition(8)
      [] state = 9 ->
           IF eof \/ ~IsDigit(r) THEN ValidEnd(9) ELSE Go(9)

\* The switch of UnmarshalNumber's loop: from state, on rune r (or end of
\* stream), the next state and whether the scan ends, validly or not.
NumberStep(state, eof, r) ==
    CASE state = 0 ->
           IF eof THEN InvalidTransition(0) ELSE IF r = "-" THEN Go(1)
           ELSE IF r = "0" THEN Go(2) ELSE IF IsDigit(r) THEN Go(3)
           ELSE InvalidTransition(0)
      [] state = 1 ->
           IF eof THEN InvalidTransition(1) ELSE IF r = "0" THEN Go(2)
           ELSE IF IsDigit(r) THEN Go(3) ELSE InvalidTransition(1)
      [] state = 2 ->
           IF eof THEN ValidEnd(2) ELSE IF r = "." THEN Go(5)
           ELSE IF r = "e" \/ r = "E" THEN Go(7) ELSE ValidEnd(2)
      [] state \in {3, 4} ->
           IF eof THEN ValidEnd(state) ELSE IF IsDigit(r) THEN Go(4)
           ELSE IF r = "." THEN Go(5)
           ELSE IF r = "e" \/ r = "E" THEN Go(7) ELSE ValidEnd(state)
      [] state = 5 ->
           IF eof THEN InvalidTransition(5) ELSE IF IsDigit(r) THEN Go(6)
           ELSE InvalidTransition(5)
      [] state = 6 ->
           IF eof THEN ValidEnd(6) ELSE IF IsDigit(r) THEN Go(6)
           ELSE IF r = "e" \/ r = "E" THEN Go(7) ELSE ValidEnd(6)
      [] state = 7 ->
           IF eof THEN InvalidTransition(7) ELSE IF r = "-" \/ r = "+" THEN Go(8)
           ELSE IF IsDigit(r) THEN Go(9) ELSE InvalidTransition(7)
      [] state = 8 ->
           IF eof THEN InvalidTransition(8) ELSE IF IsDigit(r) THEN Go(9)
           ELSE InvalidTransition(8)
      [] state = 9 ->
           IF eof \/ ~IsDigit(r) THEN ValidEnd(9) ELSE Go(9)

\* One iteration of the for loop of UnmarshalNumber.
NumberIter(l) ==
    LET Switched(rr, st) ==
          [done |-> st.validEnd \/ st.invalidTransition,
           eof |-> rr.err = EOF,
           invalidTransition |-> st.invalidTransition,
           state |-> st.state,
           numberBuf |-> IF ~st.validEnd THEN Append(l.numberBuf, rr.r)
                         ELSE l.numberBuf,
           reader |-> rr.reader]
        Got(rr) == Switched(rr, NumberStep(l.state, rr.err = EOF, rr.r))
    IN  Got(ReadRune(l.reader))

RECURSIVE NumberLoop(_)
NumberLoop(l) == IF l.done THEN l ELSE NumberLoop(NumberIter(l))

\* convertToNumber without its test for '.', 'e' and 'E': every token is
\* parsed as a float.
convertToNumberFloatOnly(numberString) ==
    LET Float(f) ==
          IF f.err # NoErr
          THEN [value |-> IntValue(0),
                err |-> Wrap("failed to Unmarshal float number", f.err)]
          ELSE [value |-> f.value, err |-> NoErr]
    IN  Float(ParseFloat(numberString))

\* convertToNumber returning the parsed integer as Go's int instead of
\* int64.
convertToNumberAsInt(numberString) ==
    LET Float(f) ==
          IF f.err # NoErr
          THEN [value |-> IntValue(0),
                err |-> Wrap("failed to Unmarshal float number", f.err)]
          ELSE [value |-> f.value, err |-> NoErr]
        Integer(i) ==
          IF i.err # NoErr
          THEN [value |-> IntValue(0),
                err |-> Wrap("failed to Unmarshal integer number", i.err)]
          ELSE [value |-> [i.value EXCEPT !.kind = "int"], err |-> NoErr]
    IN  IF ContainsAny(numberString, {".", "e", "E"})
        THEN Float(ParseFloat(numberString))
        ELSE Integer(ParseInt(numberString))

convertToNumber(numberString) ==
    LET Float(f) ==
          IF f.err # NoErr
          THEN [value |-> IntValue(0),
                err |-> Wrap("failed to Unmarshal float number", f.err)]
          ELSE [value |-> f.value, err |-> NoErr]
        Integer(i) ==
          IF i.err # NoErr
          THEN [value |-> IntValue(0),
                err |-> Wrap("failed to Unmarshal integer number", i.err)]
          ELSE [value |-> i.value, err |-> NoErr]
    IN  IF ContainsAny(numberString, {".", "e", "E"})
        THEN Float(ParseFloat(numberString))
        ELSE Integer(ParseInt(numberString))

NumberStart(b) ==
    [done |-> FALSE, eof |-> FALSE, invalidTransition |-> FALSE, state |-> 0,
     numberBuf |-> << >>, reader |-> b]

NumberAfter(l) ==
    LET Number(c, bb) == Result(c.value, c.err, bb)
        Unread(u) ==
          IF u.err # NoErr
          THEN Result(IntValue(0), Wrap("failed to unread rune", u.err), u.reader)
          ELSE Number(convertToNumber(l.numberBuf), u.reader)
    IN  IF l.invalidTransition
        THEN Result(IntValue(0), <<"invalid char in number">>, l.reader)
        ELSE Unread(IF ~l.eof THEN UnreadRune(l.reader)
                    ELSE [err |-> NoErr, reader |-> l.reader])

UnmarshalNumber(b) == NumberAfter(NumberLoop(NumberStart(b)))

convertHexToUnicode(b) ==
    LET Parsed(h, bb) ==
          IF h.err # NoErr
          THEN [r |-> NUL, err |-> <<"failed to Unmarshal hex string">>, reader |-> bb]
          ELSE [r |-> RuneOf(h.value), err |-> NoErr, reader |-> bb]
        Got(rd) ==
          IF rd.n # 4
          THEN [r |-> NUL, err |-> <<"failed reading all 4 hex chars for unicode">>,
                reader |-> rd.reader]
          ELSE IF rd.err # NoErr
          THEN [r |-> NUL, err |-> Wrap("failed to read hex chars for unicode", rd.err),
                reader |-> rd.reader]
          ELSE Parsed(ParseHex(rd.p), rd.reader)
    IN  Got(Read(b, 4))

\* The switch on the escape letter without its case for '/'.
EscapedRuneNoSlash(r) ==
    CASE r = "\"" -> "\""
      [] r = "\\" -> "\\"
      [] r = "b" -> BS
      [] r = "f" -> "\f"
      [] r = "n" -> "\n"
      [] r = "r" -> "\r"
      [] r = "t" -> "\t"
      [] OTHER -> NUL

\* The character an escape letter stands for (the cases of the switch that
\* write one rune); NUL for a letter that has none.
EscapedRune(r) ==
    CASE r = "\"" -> "\""
      [] r = "\\" -> "\\"
      [] r = "/" -> "/"
      [] r = "b" -> BS
      [] r = "f" -> "\f"
      [] r = "n" -> "\n"
      [] r = "r" -> "\r"
      [] r = "t" -> "\t"
      [] OTHER -> NUL

\* One iteration of the for loop of UnmarshalString: sb is the builder's
\* content.
StringIter(l) ==
    LET Stop(e, b) ==
          [done |-> TRUE, sb |-> << >>, backslash |-> l.backslash, err |-> e,
           reader |-> b]
        Write(c, b) ==
          [done |-> FALSE, sb |-> Append(l.sb, c), backslash |-> FALSE,
           err |-> NoErr, reader |-> b]
        Hex(h) ==
          IF h.err # NoErr
          THEN Stop(<<"failed to Unmarshal unicode character">>, h.reader)
          ELSE Write(h.r, h.reader)
        Escape(c, b) ==
          IF c # NUL THEN Write(c, b)
          ELSE Stop(<<"error: unexpected escape character">>, b)
        Got(rr) ==
          IF rr.err # NoErr
          THEN Stop(Wrap("failed to read rune", rr.err), rr.reader)
          ELSE IF l.backslash
          THEN IF rr.r = "u" THEN Hex(convertHexToUnicode(rr.reader))
               ELSE Escape(EscapedRune(rr.r), rr.reader)
          ELSE IF rr.r = "\\"
          THEN [l EXCEPT !.backslash = TRUE, !.reader = rr.reader]
          ELSE IF rr.r = "\""
          THEN [l EXCEPT !.done = TRUE, !.reader = rr.reader]
          ELSE Write(rr.r, rr.reader)
    IN  Got(ReadRune(l.reader))

RECURSIVE StringLoop(_)
StringLoop(l) == IF l.done THEN l ELSE StringLoop(StringIter(l))

\* UnmarshalString up to its loop: the opening quote is read (done: the
\* function has returned for want of one).
StringStart(b) ==
    LET Entered(ret, e, bb) ==
          [done |-> ret, sb |-> << >>, backslash |-> FALSE, err |-> e, reader |-> bb]
        Got(rr) ==
          IF rr.err # NoErr
          THEN Entered(TRUE, Wrap("failed to read rune", rr.err), rr.reader)
          ELSE IF rr.r # "\""
          THEN Entered(TRUE, <<"cannot match string, no opening double quote found">>,
                       rr.reader)
          ELSE Entered(FALSE, NoErr, rr.reader)
    IN  Got(ReadRune(b))

StringAfter(l) == Result(StringValue(l.sb), l.err, l.reader)

UnmarshalString(b) == StringAfter(StringLoop(StringStart(b)))

\* object[key] = value on a Go map.
MapSet(object, key, v) ==
    [k \in (DOMAIN object) \cup {key} |-> IF k = key THEN v ELSE object[k]]

RECURSIVE UnmarshalValue(_)

\* One iteration of the for loop of UnmarshalObject with '}' taken as the end
\* of the object in state 5 as in state 1.
ObjectIterClosesAfterComma(l) ==
    LET Stop(e, b) ==
          [done |-> TRUE, state |-> l.state, key |-> l.key, object |-> << >>,
           err |-> e, reader |-> b]
        Key(k) ==
          IF k.err # NoErr
          THEN Stop(Wrap("failed to Unmarshal object key", k.err), k.reader)
          ELSE [l EXCEPT !.state = 2, !.key = k.value.s, !.reader = k.reader]
        Unread(u) ==
          IF u.err # NoErr THEN Stop(Wrap("failed to unread rune", u.err), u.reader)
          ELSE Key(UnmarshalString(u.reader))
        Member(v) ==
          IF v.err # NoErr
          THEN Stop(<<"failed to Unmarshal value for object key">>, v.reader)
          ELSE [l EXCEPT !.state = 4, !.object = MapSet(l.object, l.key, v.value),
                         !.reader = v.reader]
        Got(rr) ==
          IF rr.err # NoErr
          THEN Stop(Wrap("failed to read rune", rr.err), rr.reader)
          ELSE
          CASE l.state = 0 ->
                 IF rr.r = "{" THEN [l EXCEPT !.state = 1, !.reader = rr.reader]
                 ELSE Stop(<<"failed to Unmarshal object: no opening {">>, rr.reader)
            [] l.state = 1 \/ l.state = 5 ->
                 IF isJsonWhitespace(rr.r) THEN [l EXCEPT !.reader = rr.reader]
                 ELSE IF rr.r = "}"
                 THEN [l EXCEPT !.done = TRUE, !.reader = rr.reader]
                 ELSE Unread(UnreadRune(rr.reader))
            [] l.state = 2 ->
                 IF isJsonWhitespace(rr.r) THEN [l EXCEPT !.reader = rr.reader]
                 ELSE IF rr.r = ":" THEN [l EXCEPT !.state = 3, !.reader = rr.reader]
                 ELSE Stop(<<"failed to find matching value for object key">>,
                           rr.reader)
            [] l.state = 3 -> Member(UnmarshalValue(rr.reader))
            [] l.state = 4 ->
                 IF rr.r = "}" THEN [l EXCEPT !.done = TRUE, !.reader = rr.reader]
                 ELSE IF rr.r = "," THEN [l EXCEPT !.state = 5, !.reader = rr.reader]
                 ELSE [l EXCEPT !.reader = rr.reader]
    IN  Got(ReadRune(l.reader))

\* One iteration of the for loop of UnmarshalObject.
ObjectIter(l) ==
    LET Stop(e, b) ==
          [done |-> TRUE, state |-> l.state, key |-> l.key, object |-> << >>,
           err |-> e, reader |-> b]
        Key(k) ==
          IF k.err # NoErr
          THEN Stop(Wrap("failed to Unmarshal object key", k.err), k.reader)
          ELSE [l EXCEPT !.state = 2, !.key = k.value.s, !.reader = k.reader]
        Unread(u) ==
          IF u.err # NoErr THEN Stop(Wrap("failed to unread rune", u.err), u.reader)
          ELSE Key(UnmarshalString(u.reader))
        Member(v) ==
          IF v.err # NoErr
          THEN Stop(<<"failed to Unmarshal value for object key">>, v.reader)
          ELSE [l EXCEPT !.state = 4, !.object = MapSet(l.object, l.key, v.value),
                         !.reader = v.reader]
        Got(rr) ==
          IF rr.err # NoErr
          THEN Stop(Wrap("failed to read rune", rr.err), rr.reader)
          ELSE
          CASE l.state = 0 ->
                 IF rr.r = "{" THEN [l EXCEPT !.state = 1, !.reader = rr.reader]
                 ELSE Stop(<<"failed to Unmarshal object: no opening {">>, rr.reader)
            [] l.state = 1 \/ l.state = 5 ->
                 IF isJsonWhitespace(rr.r) THEN [l EXCEPT !.reader = rr.reader]
                 ELSE IF l.state = 1 /\ rr.r = "}"
                 THEN [l EXCEPT !.done = TRUE, !.reader = rr.reader]
                 ELSE Unread(UnreadRune(rr.reader))
            [] l.state = 2 ->
                 IF isJsonWhitespace(rr.r) THEN [l EXCEPT !.reader = rr.reader]
                 ELSE IF rr.r = ":" THEN [l EXCEPT !.state = 3, !.reader = rr.reader]
                 ELSE Stop(<<"failed to find matching value for object key">>,
                           rr.reader)
            [] l.state = 3 -> Member(UnmarshalValue(rr.reader))
            [] l.state = 4 ->
                 IF rr.r = "}" THEN [l EXCEPT !.done = TRUE, !.reader = rr.reader]
                 ELSE IF rr.r = "," THEN [l EXCEPT !.state = 5, !.reader = rr.reader]
                 ELSE [l EXCEPT !.reader = rr.reader]
    IN  Got(ReadRune(l.reader))

RECURSIVE ObjectLoop(_)
ObjectLoop(l) == IF l.done THEN l ELSE ObjectLoop(ObjectIter(l))

ObjectStart(b) ==
    [done |-> FALSE, state |-> 0, key |-> << >>, object |-> << >>, err |-> NoErr,
     reader |-> b]

ObjectAfter(l) == Result(MapValue(l.object), l.err, l.reader)

UnmarshalObject(b) == ObjectAfter(ObjectLoop(ObjectStart(b)))

\* One iteration of the for loop of UnmarshalArray that pushes whitespace
\* after '[' or ',' back instead of going on to the next rune.
ArrayIterPeeksWhitespace(l) ==
    LET Stop(e, b) ==
          [done |-> TRUE, state |-> l.state, values |-> << >>, err |-> e,
           reader |-> b]
        Element(v) ==
          IF v.err # NoErr
          THEN Stop(Wrap("failed to Unmarshal array", v.err), v.reader)
          ELSE [l EXCEPT !.state = 2, !.values = Append(l.values, v.value),
                         !.reader = v.reader]
        Unread(u) ==
          IF u.err # NoErr THEN Stop(Wrap("failed to unread rune", u.err), u.reader)
          ELSE Element(UnmarshalValue(u.reader))
        Got(rr) ==
          IF rr.err # NoErr
          THEN Stop(Wrap("failed to read rune", rr.err), rr.reader)
          ELSE
          CASE l.state = 0 ->
                 IF rr.r = "[" THEN [l EXCEPT !.state = 1, !.reader = rr.reader]
                 ELSE Stop(<<"failed to Unmarshal array: no opening [">>, rr.reader)
            [] l.state = 1 ->
                 IF isJsonWhitespace(rr.r)
                 THEN [l EXCEPT !.reader = UnreadRune(rr.reader).reader]
                 ELSE IF rr.r = "]" THEN [l EXCEPT !.done = TRUE, !.reader = rr.reader]
                 ELSE Unread(UnreadRune(rr.reader))
            [] l.state = 2 ->
                 IF rr.r = "," THEN [l EXCEPT !.state = 1, !.reader = rr.reader]
                 ELSE IF rr.r = "]" THEN [l EXCEPT !.done = TRUE, !.reader = rr.reader]
                 ELSE Stop(<<"failed to Unmarshal array: no , or ]">>, rr.reader)
    IN  Got(ReadRune(l.reader))

\* One iteration of the for loop of UnmarshalArray.
ArrayIter(l) ==
    LET Stop(e, b) ==
          [done |-> TRUE, state |-> l.state, values |-> << >>, err |-> e,
           reader |-> b]
        Element(v) ==
          IF v.err # NoErr
          THEN Stop(Wrap("failed to Unmarshal array", v.err), v.reader)
          ELSE [l EXCEPT !.state = 2, !.values = Append(l.values, v.value),
                         !.reader = v.reader]
        Unread(u) ==
          IF u.err # NoErr THEN Stop(Wrap("failed to unread rune", u.err), u.reader)
          ELSE Element(UnmarshalValue(u.reader))
        Got(rr) ==
          IF rr.err # NoErr
          THEN Stop(Wrap("failed to read rune", rr.err), rr.reader)
          ELSE
          CASE l.state = 0 ->
                 IF rr.r = "[" THEN [l EXCEPT !.state = 1, !.reader = rr.reader]
                 ELSE Stop(<<"failed to Unmarshal array: no opening [">>, rr.reader)
            [] l.state = 1 ->
                 IF isJsonWhitespace(rr.r) THEN [l EXCEPT !.reader = rr.reader]
                 ELSE IF rr.r = "]" THEN [l EXCEPT !.done = TRUE, !.reader = rr.reader]
                 ELSE Unread(UnreadRune(rr.reader))
            [] l.state = 2 ->
                 IF rr.r = "," THEN [l EXCEPT !.state = 1, !.reader = rr.reader]
                 ELSE IF rr.r = "]" THEN [l EXCEPT !.done = TRUE, !.reader = rr.reader]
                 ELSE Stop(<<"failed to Unmarshal array: no , or ]">>, rr.reader)
    IN  Got(ReadRune(l.reader))

RECURSIVE ArrayLoop(_)
ArrayLoop(l) == IF l.done THEN l ELSE ArrayLoop(ArrayIter(l))

ArrayStart(b) ==
    [done |-> FALSE, state |-> 0, values |-> << >>, err |-> NoErr, reader |-> b]

ArrayAfter(l) == Result(SliceValue(l.values), l.err, l.reader)

UnmarshalArray(b) == ArrayAfter(ArrayLoop(ArrayStart(b)))

\* The first runes UnmarshalValue has a production for.
StartsValue(r) == r = "\"" \/ IsDigit(r) \/ r \in {"-", "{", "[", "t", "f", "n"}

\* The production UnmarshalValue calls for first rune r.
Dispatch(r, b) ==
    CASE r = "\"" -> UnmarshalString(b)
      [] IsDigit(r) \/ r = "-" -> UnmarshalNumber(b)
      [] r = "{" -> UnmarshalObject(b)
      [] r = "[" -> UnmarshalArray(b)
      [] r = "t" -> UnmarshalTrue(b)
      [] r = "f" -> UnmarshalFalse(b)
      [] r = "n" -> UnmarshalNull(b)

\* UnmarshalValue up to the peek at the first rune: [r, err, reader].
PeekFirst(b) ==
    LET Peeked(r, e, bb) == [r |-> r, err |-> e, reader |-> bb]
        Unread(r, u) ==
          IF u.err # NoErr
          THEN Peeked(NUL, Wrap("failed to unread rune", u.err), u.reader)
          ELSE Peeked(r, NoErr, u.reader)
        Got(rr) ==
          IF rr.err # NoErr
          THEN Peeked(NUL, Wrap("failed to read rune", rr.err), rr.reader)
          ELSE Unread(rr.r, UnreadRune(rr.reader))
        Leading(ws) ==
          IF ws.err # NoErr
          THEN Peeked(NUL, Wrap("failed to Unmarshal leading whitespace", ws.err),
                      ws.reader)
          ELSE Got(ReadRune(ws.reader))
    IN  Leading(UnmarshalWhitespace(b))

\* UnmarshalValue up to the end of the if chain on the first rune: returned
\* says that the function has returned by then.
ParseFirst(p) ==
    LET Parsed(ret, res) ==
          [returned |-> ret, value |-> res.value, err |-> res.err,
           reader |-> res.reader]
    IN  IF p.err # NoErr THEN Parsed(TRUE, Result(NilValue, p.err, p.reader))
        ELSE IF ~StartsValue(p.r)
        THEN Parsed(TRUE, Result(NilValue, <<"failed to match value given first char">>,
                                 p.reader))
        ELSE Parsed(FALSE, Dispatch(p.r, p.reader))

UnmarshalValue(b) ==
    LET Trailing(res, tw) ==
          IF tw.err # NoErr
          THEN Result(NilValue, Wrap("failed to Unmarshal trailing whitespace", tw.err),
                      tw.reader)
          ELSE Result(res.value, res.err, tw.reader)
        After(res) ==
          IF res.returned THEN Result(res.value, res.err, res.reader)
          ELSE Trailing(res, UnmarshalWhitespace(res.reader))
    IN  After(ParseFirst(PeekFirst(b)))

(***************************************************************************)
(* bufio.Writer.  out is every byte the writer has accepted, in order;     *)
(* failAt is the number of bytes it accepts before flushing to its sink    *)
(* fails (NoFail: the sink never fails); err is the writer's sticky error: *)
(* once a write has failed every later write returns the error and writes  *)
(* nothing.  late records the history of the writer: the number of writes  *)
(* called after a write had failed.                                        *)
(***************************************************************************)
NoFail == -1
ErrWrite == <<"write error">>

NewWriter(failAt) == [out |-> << >>, failAt |-> failAt, err |-> NoErr, late |-> 0]

Out(w, e) == [writer |-> w, err |-> e]

WriteString(w, s) ==
    IF w.err # NoErr THEN Out([w EXCEPT !.late = @ + 1], w.err)
    ELSE IF w.failAt # NoFail /\ Len(w.out) + Len(s) > w.failAt
    THEN Out([w EXCEPT !.out = @ \o SubSeq(s, 1, w.failAt - Len(w.out)),
                       !.err = ErrWrite],
             ErrWrite)
    ELSE Out([w EXCEPT !.out = @ \o s], NoErr)

WriteByte(w, c) == WriteString(w, <<c>>)

WriteRune(w, c) == WriteString(w, <<c>>)

\* o with msg put in front of its error, if it has one.
Wrapped(o, msg) == IF o.err # NoErr THEN Out(o.writer, Wrap(msg, o.err)) ELSE o

(***************************************************************************)
(* The encoder.  MarshalValue, MarshalArray and MarshalObject return the   *)
(* set of outcomes [writer, err] a call can have: one for each order in    *)
(* which Go's range may visit the entries of the maps it meets.            *)
(***************************************************************************)
\* The switch of MarshalString without its case for the backslash.
EscapeRuneNoBackslash(c) ==
    CASE c = "\"" -> <<"\\", "\"">>
      [] c = BS -> <<"\\", "b">>
      [] c = "\f" -> <<"\\", "f">>
      [] c = "\n" -> <<"\\", "n">>
      [] c = "\r" -> <<"\\", "r">>
      [] c = "\t" -> <<"\\", "t">>
      [] OTHER -> <<c>>

\* The text the switch of MarshalString writes for rune c.
EscapeRune(c) ==
    CASE c = "\"" -> <<"\\", "\"">>
      [] c = "\\" -> <<"\\", "\\">>
      [] c = BS -> <<"\\", "b">>
      [] c = "\f" -> <<"\\", "f">>
      [] c = "\n" -> <<"\\", "n">>
      [] c = "\r" -> <<"\\", "r">>
      [] c = "\t" -> <<"\\", "t">>
      [] OTHER -> <<c>>

RECURSIVE MarshalStringLoop(_, _, _)
\* The range loop of MarshalString from rune i on.
MarshalStringLoop(s, i, w) ==
    IF i > Len(s) THEN Out(w, NoErr)
    ELSE LET o == WriteString(w, EscapeRune(s[i]))
         IN  IF o.err # NoErr
             THEN Out(o.writer, Wrap("failed to write rune from string", o.err))
             ELSE MarshalStringLoop(s, i + 1, o.writer)

MarshalString(s, w) ==
    LET open == WriteByte(w, "\"")
    IN  IF open.err # NoErr
        THEN Wrapped(open, "failed to write opening \" in string")
        ELSE LET body == MarshalStringLoop(s, 1, open.writer)
             IN  IF body.err # NoErr THEN body
                 ELSE Wrapped(WriteByte(body.writer, "\""),
                              "failed to write closing \" in string")

MarshalNumber(v, w) ==
    IF v.kind = "int64"
    THEN Wrapped(WriteString(w, FormatInt(v)), "failed to write value")
    ELSE IF v.kind = "float64"
    THEN Wrapped(WriteString(w, FormatFloat(v)), "failed to write value")
    ELSE Out(w, <<"number was not int64 or float64">>)

MarshalBoolean(b, w) ==
    Wrapped(WriteString(w, IF b THEN TRUE_STRING ELSE FALSE_STRING),
            "failed to write boolean")

MarshalNull(w) == Wrapped(WriteString(w, NULL_STRING), "failed to write null")

RECURSIVE MarshalValue(_, _)
RECURSIVE MarshalArrayLoop(_, _, _)
RECURSIVE MarshalObjectLoop(_, _, _, _)

\* The range loop of MarshalArray without its test i < len(values)-1: a ','
\* is written after every element.
MarshalArrayLoopCommaAlways(values, i, w) ==
    IF i > Len(values) THEN {Wrapped(WriteByte(w, "]"), "failed to write ]")}
    ELSE UNION {
           IF o.err # NoErr
           THEN {Wrapped(o, "failed to write array value at index")}
           ELSE LET c == WriteByte(o.writer, ",")
                IN  IF c.err # NoErr THEN {Wrapped(c, "failed to write ,")}
                    ELSE MarshalArrayLoop(values, i + 1, c.writer)
         : o \in MarshalValue(values[i], w) }

\* The range loop of MarshalArray without its return on a failed element:
\* the loop goes on to the ',' and to the next element.
MarshalArrayLoopKeepsGoing(values, i, w) ==
    IF i > Len(values) THEN {Wrapped(WriteByte(w, "]"), "failed to write ]")}
    ELSE UNION {
           IF i < Len(values)
           THEN LET c == WriteByte(o.writer, ",")
                IN  IF c.err # NoErr THEN {Wrapped(c, "failed to write ,")}
                    ELSE MarshalArrayLoop(values, i + 1, c.writer)
           ELSE MarshalArrayLoop(values, i + 1, o.writer)
         : o \in MarshalValue(values[i], w) }

\* The range loop of MarshalArray from element i (counted from 1) on.
MarshalArrayLoop(values, i, w) ==
    IF i > Len(values) THEN {Wrapped(WriteByte(w, "]"), "failed to write ]")}
    ELSE UNION {
           IF o.err # NoErr
           THEN {Wrapped(o, "failed to write array value at index")}
           ELSE IF i < Len(values)
           THEN LET c == WriteByte(o.writer, ",")
                IN  IF c.err # NoErr THEN {Wrapped(c, "failed to write ,")}
                    ELSE MarshalArrayLoop(values, i + 1, c.writer)
           ELSE MarshalArrayLoop(values, i + 1, o.writer)
         : o \in MarshalValue(values[i], w) }

MarshalArray(values, w) ==
    LET open == WriteByte(w, "[")
    IN  IF open.err # NoErr THEN {Wrapped(open, "failed to write [")}
        ELSE MarshalArrayLoop(values, 1, open.writer)

\* The range loop of MarshalObject with the keys of rest still to visit and
\* i entries written: range visits the keys in any order.
MarshalObjectLoop(object, rest, i, w) ==
    IF rest = {} THEN {Wrapped(WriteByte(w, "}"), "failed to write }")}
    ELSE UNION {
           LET k == MarshalString(key, w)
           IN  IF k.err # NoErr THEN {Wrapped(k, "failed to write object key")}
               ELSE LET c == WriteByte(k.writer, ":")
                    IN  IF c.err # NoErr THEN {Wrapped(c, "failed to write ':'")}
                        ELSE UNION {
                               IF o.err # NoErr
                               THEN {Wrapped(o, "failed to write object value")}
                               ELSE IF i < Cardinality(DOMAIN object) - 1
                               THEN LET m == WriteByte(o.writer, ",")
                                    IN  IF m.err # NoErr
                                        THEN {Wrapped(m, "failed to write ','")}
                                        ELSE MarshalObjectLoop(object, rest \ {key},
                                                               i + 1, m.writer)
                               ELSE MarshalObjectLoop(object, rest \ {key}, i + 1,
                                                      o.writer)
                             : o \in MarshalValue(object[key], c.writer) }
         : key \in rest }

MarshalObject(object, w) ==
    LET open == WriteByte(w, "{")
    IN  IF open.err # NoErr THEN {Wrapped(open, "failed to write {")}
        ELSE MarshalObjectLoop(object, DOMAIN object, 0, open.writer)

MarshalValue(v, w) ==
    IF v = NilValue
    THEN {Wrapped(MarshalNull(w), "failed to write null")}
    ELSE CASE v.kind = "string" -> {MarshalString(v.s, w)}
           [] v.kind \in {"int64", "float64"} -> {MarshalNumber(v, w)}
           [] v.kind = "map" -> MarshalObject(v.entries, w)
           [] v.kind = "slice" -> MarshalArray(v.elems, w)
           [] v.kind = "bool" -> {MarshalBoolean(v.b, w)}
           [] OTHER -> {Out(w, <<"cannot marshal value">>)}

(***************************************************************************)
(* The inputs: the texts handed to the decoder, each with the description  *)
(* of how it is put together (doc), and the values handed to the encoder.  *)
(***************************************************************************)
RECURSIVE Flatten(_)
\* The texts of a sequence of texts, one after the other.
Flatten(ts) == IF ts = << >> THEN << >> ELSE Head(ts) \o Flatten(Tail(ts))

RECURSIVE Join(_, _)
\* The texts of ts with sep between each two.
Join(ts, sep) ==
    IF ts = << >> THEN << >>
    ELSE IF Len(ts) = 1 THEN ts[1]
    ELSE ts[1] \o sep \o Join(Tail(ts), sep)

Quoted(s) == <<"\"">> \o s \o <<"\"">>

Spaces(n) == [i \in 1..n |-> " "]

\* Every sequence over set A of length lo..hi.
SeqsOf(A, lo, hi) == UNION {[1..k -> A] : k \in lo..hi}

NumberAlphabet == {"-", "0", "1", "2", ".", "e"}

NumberTexts ==
    SeqsOf(NumberAlphabet, 1, MaxTokenLen)
    \cup { <<"1", ".", "5", "e", "2">>,
      <<"1", "E", "5">>,
      <<"1", "e", "+", "5">>,
      <<"1", "E", "-", "5">>,
      <<"0", "E", "1">>,
      <<"-", "3">>,
      <<"-", "0", ".", "0">>,
      <<"1", "e", "+">>,
      <<"1", "2", "x">>,
      <<"1", "e", "4", "0", "0">>,
      <<"1", "e", "-", "4", "0", "0">>,
      [i \in 1..20 |-> "9"],
      MaxInt64Digits,
      MinInt64Digits,
      <<"-">> \o MinInt64Digits,
      <<ArabicThree>>,
      <<"1", ArabicThree>>,
      <<"0", ".", ArabicThree, "]">> }

StringAlphabet == {"\"", "\\", "a", "n", "q"}

\* Texts for UnmarshalString: with and without the opening and the closing
\* quote, with every escape letter and with letters that are none.
StringTexts ==
    SeqsOf(StringAlphabet, 0, MaxStringLen)
    \cup { <<"\"", "\\", "b", "\\", "f", "\\", "r", "\\", "t", "\\", "/", "\"">>,
           <<"\"", "\\", "\"", "/", "\\", "\\", "\\", "n", "\"", "a">>,
           <<"\"", "a", " ", "\t", "b", "/", "\"">>,
           <<"\"", "a", "\\", "a", "\"">>,
           <<"\"", "{", "a", "]", "\\">>,
           <<"\"", "U+0000", "a", "\"", "\"">> }

\* What follows the \u of an escape: four hex digits, a sign among them, a
\* letter that is no hex digit, fewer than four.
HexTexts ==
    { <<"0", "0", "4", "1">>,
      <<"0", "0", "6", "1">>,
      <<"0", "0", "0", "a">>,
      <<"0", "0", "0", "A">>,
      <<"0", "0", "2", "2">>,
      <<"1", "0", "1", "1">>,
      <<"0", "0", "0", "0">>,
      <<"f", "F", "e", "E">>,
      <<"+", "0", "4", "1">>,
      <<"-", "0", "4", "1">>,
      <<"0", "0", "g", "1">>,
      <<"0", " ", "4", "1">>,
      <<"0", "0", "4", "-">>,
      <<"0", "0", "4">>,
      <<"4", "1">>,
      << >> }

\* Unpadded texts of one complete JSON value each.
Cores ==
    { <<"1", "2">>,
      <<"0">>,
      <<"-", "3">>,
      <<"1", ".", "5">>,
      <<"t", "r", "u", "e">>,
      <<"f", "a", "l", "s", "e">>,
      <<"n", "u", "l", "l">>,
      <<"\"", "a", "b", "\"">>,
      <<"[", "1", ",", " ", "2", "]">>,
      <<"[", "]">>,
      <<"{", "}">>,
      <<"{", "\"", "a", "\"", ":", " ", "1", "}">> }

\* What may follow a value in an array text or a member's value text.
ElemTexts ==
    { <<"1">>,
      <<"2">>,
      <<"0", "1">>,
      <<"t", "r", "u", "e">>,
      <<"[", "]">>,
      <<"\"", "a", "\"">>,
      <<"1", ".", "5">>,
      <<"n", "u", "l", "l">> }

MemberTexts ==
    { <<"1", "2">>,
      <<"0", "1">>,
      <<"\"", "x", "\"">>,
      <<"[", "1", "]">>,
      <<"t", "r", "u", "e">> }

Keys == {<<"a">>, <<"b">>}

Members == [key : Keys, gap : {<< >>, <<" ">>}, vtext : MemberTexts]

\* Other texts: literals cut short or misspelt, strings, arrays and objects.
PlainTexts ==
    { <<>>,
      <<"t", "r", "u">>,
      <<"t", "r", "u", "E">>,
      <<"n", "u", "l">>,
      <<"f", "a", "l", "s">>,
      <<"x">>,
      <<"\"", "a">>,
      <<"\"", "a", "\\", "n", "b", "\"">>,
      <<"\"", "\\", "u", "0", "0", "4", "1", "\"">>,
      <<"\"", "\\", "u", "0", "0", "4", "\"">>,
      <<"\"", "\\", "q", "\"">>,
      <<" ", "\t">>,
      <<"]">>,
      <<"[", "1", " ", "2", "]">>,
      <<"[", "1", ",", "2">>,
      <<"{", " ", "}">>,
      <<"{", "\"", "a", "\"", ":", " ", "1", ",", " ", "}">>,
      <<"{", "\"", "a", "\"", ":", " ", "1", " ", "\"", "b", "\"", ":", " ", "2", "}">>,
      <<"{", "\"", "a", "\"", " ", "1", "}">>,
      <<"{", "\"", "a", "\"", ":", " ", "1", ",", "\"", "a", "\"", ":", " ", "2", "}">>,
      <<"{", "\"", "a", "\"", ":", "1", ",", "\"", "a", "\"", ":", "2", "}">>,
      <<"{", "\"", "s", "\"", ":", " ", "\"", "h", "i", "!", "\"", ",", " ", "\"", "b", "\"", ":", " ", " ", "[", "1", ",", " ", " ", "5", "]", "}">> }

Docs ==
    [family : {"number"}, text : NumberTexts]
    \cup [family : {"plain"}, text : PlainTexts]
    \cup [family : {"array"}, elems : SeqsOf(ElemTexts, 0, MaxItems),
          sep : {<<",">>, <<",", " ">>}, tail : {<< >>, <<",">>, <<",", " ">>}]
    \cup [family : {"object"}, members : SeqsOf(Members, 0, MaxItems),
          tail : {<< >>, <<",">>, <<" ", "x">>}]
    \cup [family : {"followed"}, core : Cores,
          gap : {<< >>, <<" ">>, <<" ", "\n">>},
          rest : {<<"x">>, <<"]">>, <<",", "1">>, <<"}", " ">>, <<"1">>, <<"t", "r", "u", "e">>}]
    \cup [family : {"string"}, text : StringTexts]
    \cup [family : {"unicode"}, hex : HexTexts, close : {<< >>, <<"\"">>}]

MemberText(m) == Quoted(m.key) \o <<":">> \o m.gap \o m.vtext

TextOf(d) ==
    CASE d.family \in {"number", "plain", "string"} -> d.text
      [] d.family = "unicode" -> <<"\"", "\\", "u">> \o d.hex \o d.close
      [] d.family = "array" -> <<"[">> \o Join(d.elems, d.sep) \o d.tail \o <<"]">>
      [] d.family = "object" ->
           <<"{">> \o Join([i \in 1..Len(d.members) |-> MemberText(d.members[i])], <<",">>)
                   \o d.tail \o <<"}">>
      [] d.family = "followed" -> d.core \o d.gap \o d.rest

\* The whitespace put around a text that decoded.
Paddings ==
    [pre : {<< >>, <<" ", "\t", "\n", "\r">>, Spaces(ReaderSize - 2)},
     suf : {<< >>, <<"\n", "\r", "\t", " ">>}]
    \ {[pre |-> << >>, suf |-> << >>]}

\* Values a program builds and hands to the encoder.
Leaves ==
    { NilValue, BoolValue(TRUE), BoolValue(FALSE),
      Int64Value(0), Int64Value(-3), Int64Value(12),
      Float64Value(FALSE, 15, -1), Float64Value(FALSE, 15, 1),
      Float64Value(TRUE, 5, -2),
      StringValue(<< >>), StringValue(<<"a">>),
      StringValue(<<"a", "\"", "\n", "b">>), StringValue(<<"h", "i", " ", "!">>),
      StringValue(<<"\\", BS, "\f">>), StringValue(<<"\r", "\t", "U+0000", "/">>) }

SmallLeaves == {Int64Value(12), StringValue(<<"a", " ", "b">>), BoolValue(TRUE)}

\* Every map from a subset of Keys to values of set V.
MapsOver(V) == UNION {[ks -> V] : ks \in SUBSET Keys}

FlatSlices == {SliceValue(xs) : xs \in SeqsOf(Leaves, 0, MaxItems)}

FlatMaps == {MapValue(f) : f \in MapsOver(SmallLeaves)}

Nested ==
    {SliceValue(xs) : xs \in SeqsOf({SliceValue(<<Int64Value(12), NilValue>>),
                                     SliceValue(<< >>), Int64Value(0)}, 1, MaxItems)}
    \cup {SliceValue(xs) : xs \in SeqsOf(FlatMaps, 1, 2)}
    \cup {MapValue(f) : f \in MapsOver({MapValue(<<"a">> :> Int64Value(12) @@ <<"b">> :> NilValue),
                                        SliceValue(<<Int64Value(0), BoolValue(FALSE)>>),
                                        MapValue(<< >>)})}

\* Go's int: a value MarshalValue has no case for.
Values == Leaves \cup FlatSlices \cup FlatMaps \cup Nested \cup {IntValue(7)}

FailPoints == {NoFail} \cup 0..MaxFailAt

NoRune == [r |-> NUL, err |-> NoErr]

(***************************************************************************)
(* The state machine: a caller that decodes a text (as main does), may read*)
(* on after the decode, may encode a value it built or decoded into a fresh*)
(* writer and decode what was written, and may decode a text again with    *)
(* whitespace around it.                                                   *)
(*   reader, writer  the bufio.Reader and bufio.Writer of the caller       *)
(*   value, err      what the last call returned                           *)
(*   rune            what the caller's own ReadRune after a decode returned*)
(*   ref             the value that was encoded, or that the unpadded text *)
(*                   decoded to                                            *)
(*   origin          where the reader's text comes from: a doc ("given"),  *)
(*                   a padded text ("padded"), the encoding of a built     *)
(*                   ("fromBuilt") or decoded ("fromDecoded") value        *)
(*   doc             the description of the given text                     *)
(*   loop            the production that is run one iteration at a time and*)
(*                   the variables of its loop (NoLoop: none is)           *)
(***************************************************************************)
NoLoop == [prod |-> "none"]

Init ==
    /\ loop = NoLoop
    /\ writer = NewWriter(NoFail)
    /\ err = NoErr
    /\ rune = NoRune
    /\ ref = NilValue
    /\ \/ /\ doc \in Docs
          /\ reader = NewReader(TextOf(doc))
          /\ value = NilValue
          /\ origin = "given"
          /\ pc = "ready"
       \/ /\ doc = [family |-> "value"]
          /\ reader = NewReader(<< >>)
          /\ value \in Values
          /\ origin = "built"
          /\ pc = "built"

\* value, err := UnmarshalValue(reader)
Unmarshal ==
    /\ pc = "ready"
    /\ LET res == UnmarshalValue(reader)
       IN  /\ value' = res.value
           /\ err' = res.err
           /\ reader' = res.reader
    /\ pc' = "decoded"
    /\ UNCHANGED <<writer, rune, ref, origin, doc, loop>>

\* value, err := UnmarshalNumber(reader), called directly on a given text.
ScanNumber ==
    /\ pc = "ready"
    /\ origin = "given"
    /\ doc.family = "number"
    /\ LET res == UnmarshalNumber(reader)
       IN  /\ value' = res.value
           /\ err' = res.err
           /\ reader' = res.reader
    /\ pc' = "scanned"
    /\ UNCHANGED <<writer, rune, ref, origin, doc, loop>>

\* value, err := UnmarshalString(reader), called directly on a given text.
ScanString ==
    /\ pc = "ready"
    /\ origin = "given"
    /\ doc.family \in {"string", "unicode"}
    /\ LET res == UnmarshalString(reader)
       IN  /\ value' = res.value
           /\ err' = res.err
           /\ reader' = res.reader
    /\ pc' = "scannedString"
    /\ UNCHANGED <<writer, rune, ref, origin, doc, loop>>

\* The caller reads the next rune of the stream after a call on a given
\* text.
ReadNext ==
    /\ pc \in {"decoded", "scanned"}
    /\ origin = "given"
    /\ LET rr == ReadRune(reader)
       IN  /\ rune' = [r |-> rr.r, err |-> rr.err]
           /\ reader' = rr.reader
    /\ pc' = IF pc = "decoded" THEN "read" ELSE "readScanned"
    /\ UNCHANGED <<writer, value, err, ref, origin, doc, loop>>

\* err := MarshalValue(value, writer) on a fresh writer, for a value the
\* program built or decoded from a given text.
Marshal ==
    /\ \/ pc = "built"
       \/ pc = "decoded" /\ origin = "given" /\ err = NoErr
    /\ \E failAt \in FailPoints :
         \E o \in MarshalValue(value, NewWriter(failAt)) :
            /\ writer' = o.writer
            /\ err' = o.err
    /\ ref' = value
    /\ pc' = "encoded"
    /\ UNCHANGED <<reader, value, rune, origin, doc, loop>>

\* writer.Flush(), then a new reader over what was written, for a text of
\* at most MaxTextLen runes.
Reload ==
    /\ pc = "encoded"
    /\ err = NoErr
    /\ Len(writer.out) <= MaxTextLen
    /\ reader' = NewReader(writer.out)
    /\ origin' = IF origin = "built" THEN "fromBuilt" ELSE "fromDecoded"
    /\ pc' = "ready"
    /\ UNCHANGED <<writer, value, err, rune, ref, doc, loop>>

\* A new reader over the text that decoded, with whitespace around it.
Pad ==
    /\ pc = "decoded"
    /\ origin = "given"
    /\ err = NoErr
    /\ \E pad \in Paddings : reader' = NewReader(pad.pre \o reader.data \o pad.suf)
    /\ ref' = value
    /\ origin' = "padded"
    /\ pc' = "ready"
    /\ UNCHANGED <<writer, value, err, rune, doc, loop>>

Next == Unmarshal \/ ScanNumber \/ ScanString \/ ReadNext \/ Marshal \/ Reload \/ Pad

Spec == Init /\ [][Next]_vars

(***************************************************************************)
(* The productions with a for loop, run one iteration at a time: a caller  *)
(* reads some runes of a given text, calls a production on the reader, the *)
(* loop of the production runs iteration after iteration, and the          *)
(* production returns.  (A production that an iteration calls runs within  *)
(* the iteration.)                                                         *)
(***************************************************************************)
Productions == {"whitespace", "number", "string", "object", "array"}

StartOf(prod, b) ==
    CASE prod = "whitespace" -> WhitespaceStart(b)
      [] prod = "number" -> NumberStart(b)
      [] prod = "string" -> StringStart(b)
      [] prod = "object" -> ObjectStart(b)
      [] prod = "array" -> ArrayStart(b)

IterOf(prod, l) ==
    CASE prod = "whitespace" -> WhitespaceIter(l)
      [] prod = "number" -> NumberIter(l)
      [] prod = "string" -> StringIter(l)
      [] prod = "object" -> ObjectIter(l)
      [] prod = "array" -> ArrayIter(l)

AfterOf(prod, l) ==
    CASE prod = "whitespace" ->
           Result(NilValue, WhitespaceAfter(l).err, WhitespaceAfter(l).reader)
      [] prod = "number" -> NumberAfter(l)
      [] prod = "string" -> StringAfter(l)
      [] prod = "object" -> ObjectAfter(l)
      [] prod = "array" -> ArrayAfter(l)

\* The given texts of at most MaxStepLen runes.
StepDocs == {d \in Docs : Len(TextOf(d)) <= MaxStepLen}

InitSteps ==
    /\ loop = NoLoop
    /\ writer = NewWriter(NoFail)
    /\ err = NoErr
    /\ rune = NoRune
    /\ ref = NilValue
    /\ value = NilValue
    /\ origin = "given"
    /\ pc = "ready"
    /\ doc \in StepDocs
    /\ reader = NewReader(TextOf(doc))

\* The caller reads a rune before it calls a production.
Skip ==
    /\ pc = "ready"
    /\ reader.r < Len(reader.data)
    /\ LET rr == ReadRune(reader)
       IN  /\ rune' = [r |-> rr.r, err |-> rr.err]
           /\ reader' = rr.reader
    /\ UNCHANGED <<writer, value, err, ref, origin, doc, pc, loop>>

\* A production is called on the reader and runs up to its loop.
Call ==
    /\ pc = "ready"
    /\ \E prod \in Productions : loop' = [prod |-> prod, l |-> StartOf(prod, reader)]
    /\ pc' = "looping"
    /\ UNCHANGED <<reader, writer, value, err, rune, ref, origin, doc>>

\* One iteration of the loop.
Iterate ==
    /\ pc = "looping"
    /\ ~loop.l.done
    /\ loop' = [loop EXCEPT !.l = IterOf(loop.prod, loop.l)]
    /\ UNCHANGED <<reader, writer, value, err, rune, ref, origin, doc, pc>>

\* The production runs from the end of its loop to its return.
Return ==
    /\ pc = "looping"
    /\ loop.l.done
    /\ LET res == AfterOf(loop.prod, loop.l)
       IN  /\ value' = res.value
           /\ err' = res.err
           /\ reader' = res.reader
    /\ pc' = "returned"
    /\ UNCHANGED <<writer, rune, ref, origin, doc, loop>>

NextSteps == Skip \/ Call \/ Iterate \/ Return

\* A loop that can run its next iteration runs it, and a production whose
\* loop has ended returns.
SpecSteps == InitSteps /\ [][NextSteps]_vars /\ WF_vars(Iterate) /\ WF_vars(Return)

(***************************************************************************)
(* What the claims speak of.                                               *)
(***************************************************************************)
\* UnmarshalValue on a reader over the text alone.
Decode(text) == UnmarshalValue(NewReader(text))

\* The text of the stream that the calls so far have consumed.
Consumed == SubSeq(reader.data, 1, reader.r)

\* Member i is the last occurrence of its key in the object text of d.
LastOccurrence(d, i) ==
    \A j \in (i + 1)..Len(d.members) : d.members[j].key # d.members[i].key

\* The object text of d has a key that occurs more than once.
HasDuplicateKey(d) ==
    \E i, j \in 1..Len(d.members) : i < j /\ d.members[i].key = d.members[j].key

\* d is an object text of RFC 8259: no trailing comma, no junk, every member
\* value a JSON value.
WellFormedObject(d) ==
    /\ d.family = "object"
    /\ d.tail = << >>
    /\ \A i \in 1..Len(d.members) : d.members[i].vtext # <<"0", "1">>

RECURSIVE HasObject(_)
\* v holds a map at some depth.
HasObject(v) ==
    CASE v.kind = "map" -> TRUE
      [] v.kind = "slice" -> \E i \in 1..Len(v.elems) : HasObject(v.elems[i])
      [] OTHER -> FALSE

\* In the text of a "followed" doc, the rest continues the number the core
\* starts (12 then 1 is the number 121; 0 then 1 is not a number).
ExtendsNumber(d) ==
    /\ d.gap = << >>
    /\ IsDigit(d.rest[1])
    /\ d.core \in {<<"1", "2">>, <<"-", "3">>, <<"1", ".", "5">>}

\* The texts MarshalValue writes for v on a writer that does not fail.
ElementTexts(v) == {o.writer.out : o \in MarshalValue(v, NewWriter(NoFail))}

\* '[', one text of each element in sequence order with ',' between, ']'.
SliceTexts(xs) ==
    { <<"[">> \o Join(ts, <<",">>) \o <<"]">> :
        ts \in { c \in [1..Len(xs) -> UNION {ElementTexts(xs[i]) : i \in 1..Len(xs)}] :
                   \A i \in 1..Len(xs) : c[i] \in ElementTexts(xs[i]) } }

\* The orders in which the keys of f can be written.
KeyOrders(f) ==
    { ord \in [1..Cardinality(DOMAIN f) -> DOMAIN f] :
        \A i, j \in 1..Cardinality(DOMAIN f) : i # j => ord[i] # ord[j] }

\* '{', the "key":value pairs of f in some order with ',' between, '}' (the
\* keys of the model's values need no escape).
ObjectTexts(f) ==
    { <<"{">> \o Join([i \in 1..Len(ord) |-> Quoted(ord[i]) \o <<":">> \o c[ord[i]]],
                      <<",">>) \o <<"}">> :
        ord \in KeyOrders(f),
        c \in { c \in [DOMAIN f -> UNION {ElementTexts(f[k]) : k \in DOMAIN f}] :
                  \A k \in DOMAIN f : c[k] \in ElementTexts(f[k]) } }

\* The number of backslashes right before position j of text t.
BackslashRun(t, j) ==
    Cardinality({k \in 1..(j - 1) : \A m \in (j - k)..(j - 1) : t[m] = "\\"})

\* Position i of the JSON text t lies inside a string literal: an odd number
\* of unescaped double quotes comes before it.
InString(t, i) ==
    Cardinality({j \in 1..(i - 1) : t[j] = "\"" /\ BackslashRun(t, j) % 2 = 0}) % 2 = 1

NoBareWhitespace(t) == \A i \in 1..Len(t) : isJsonWhitespace(t[i]) => InString(t, i)

\* The letter that follows the backslash in the escape of a code point
\* that has a two-character escape.
EscapeLetter ==
    ("\"" :> "\"") @@ ("\\" :> "\\") @@ (BS :> "b") @@ ("\f" :> "f")
    @@ ("\n" :> "n") @@ ("\r" :> "r") @@ ("\t" :> "t")

\* '"', each code point of s as its two-character escape or as itself, '"'.
StringText(s) ==
    Quoted(Flatten([i \in 1..Len(s) |->
                      IF s[i] \in DOMAIN EscapeLetter
                      THEN <<"\\", EscapeLetter[s[i]]>> ELSE <<s[i]>>]))

\* The JSON number grammar, a digit being what the scan takes for one:
\* -?(0|[1-9][0-9]*)(.[0-9]+)?([eE][+-]?[0-9]+)?
AllIsDigit(s) == \A i \in 1..Len(s) : IsDigit(s[i])

IntPart(s) == s # << >> /\ AllIsDigit(s) /\ (s[1] = "0" => Len(s) = 1)

FracPart(s) == s = << >> \/ (Len(s) >= 2 /\ s[1] = "." /\ AllIsDigit(Tail(s)))

ExpPart(s) ==
    \/ s = << >>
    \/ /\ s[1] \in {"e", "E"}
       /\ LET d == IF Len(s) >= 2 /\ s[2] \in {"+", "-"} THEN SubSeq(s, 3, Len(s))
                   ELSE Tail(s)
          IN  d # << >> /\ AllIsDigit(d)

IsNumberText(t) ==
    LET u == IF t # << >> /\ t[1] = "-" THEN Tail(t) ELSE t
    IN  \E i \in 1..Len(u) : \E j \in i..Len(u) :
           /\ IntPart(SubSeq(u, 1, i))
           /\ FracPart(SubSeq(u, i + 1, j))
           /\ ExpPart(SubSeq(u, j + 1, Len(u)))

\* t can be extended to a number text: it is one, or it stops where a digit
\* is due.
StartsNumberText(t) == IsNumberText(t) \/ IsNumberText(t \o <<"0">>)

\* The number of characters at the start of t that extend a number text.
ScanLength(t) ==
    CHOOSE n \in 0..Len(t) :
        /\ \A m \in 0..n : StartsNumberText(SubSeq(t, 1, m))
        /\ n < Len(t) => ~StartsNumberText(SubSeq(t, 1, n + 1))

\* What strconv makes of number text tok: ParseFloat for a text with '.',
\* 'e' or 'E' and ParseInt for another.
Converted(tok) ==
    IF ContainsAny(tok, {".", "e", "E"}) THEN ParseFloat(tok) ELSE ParseInt(tok)

\* UnmarshalNumber on the given text follows the number grammar: it returns
\* without error exactly when the characters that extend a number text are a
\* complete one (and, with convertible, strconv converts them); then it has
\* consumed exactly these, returns their conversion, and the next read
\* returns the character after them, or end of stream.
ScanFollowsGrammar(convertible) ==
    (pc \in {"scanned", "readScanned"} /\ doc.family = "number")
    => LET k   == ScanLength(reader.data)
           tok == SubSeq(reader.data, 1, k)
       IN  /\ err = NoErr <=> /\ IsNumberText(tok)
                              /\ convertible => Converted(tok).err = NoErr
           /\ (err = NoErr /\ pc = "scanned")
              => (reader.r = k /\ value = Converted(tok).value)
           /\ (err = NoErr /\ pc = "readScanned")
              => IF k < Len(reader.data)
                 THEN rune = [r |-> reader.data[k + 1], err |-> NoErr]
                 ELSE rune = [r |-> NUL, err |-> EOF]

\* What the character after a backslash stands for in a JSON string.
EscapeMeaning ==
    ("\"" :> "\"") @@ ("\\" :> "\\") @@ ("/" :> "/") @@ ("b" :> BS)
    @@ ("f" :> "\f") @@ ("n" :> "\n") @@ ("r" :> "\r") @@ ("t" :> "\t")

\* The character at position i of string text t is escaped: an odd number
\* of backslashes comes right before it.
Escaped(t, i) == BackslashRun(t, i) % 2 = 1

\* The positions of t after the opening quote that hold an unescaped '"'.
ClosingQuotes(t) == {i \in 2..Len(t) : t[i] = "\"" /\ ~Escaped(t, i)}

\* The position of the first unescaped '"' after the opening quote, or the
\* position after the end of t.
StringEnd(t) ==
    IF ClosingQuotes(t) = {} THEN Len(t) + 1
    ELSE CHOOSE i \in ClosingQuotes(t) : \A j \in ClosingQuotes(t) : i <= j

\* t is a string text up to its closing quote: it opens with '"', the quote
\* closes, and every escaped character before it is an escape letter.
IsStringText(t) ==
    /\ t # << >> /\ t[1] = "\""
    /\ ClosingQuotes(t) # {}
    /\ \A i \in 2..(StringEnd(t) - 1) :
          Escaped(t, i) => t[i] \in DOMAIN EscapeMeaning

\* The positions between the quotes of t that contribute a character: every
\* one but the backslashes that escape.
ContentPositions(t) ==
    {i \in 2..(StringEnd(t) - 1) : Escaped(t, i) \/ t[i] # "\\"}

\* The string that string text t writes.
StringContent(t) ==
    [k \in 1..Cardinality(ContentPositions(t)) |->
       LET i == CHOOSE i \in ContentPositions(t) :
                  Cardinality({j \in ContentPositions(t) : j < i}) = k - 1
       IN  IF Escaped(t, i) THEN EscapeMeaning[t[i]] ELSE t[i]]

RECURSIVE IsJsonValue(_)
\* v is, at every depth, nil, a bool, an int64, a float64, a string, a
\* []interface{} or a map[string]interface{}.
IsJsonValue(v) ==
    CASE v.kind \in {"nil", "bool", "int64", "float64", "string"} -> TRUE
      [] v.kind = "slice" -> \A i \in 1..Len(v.elems) : IsJsonValue(v.elems[i])
      [] v.kind = "map" -> \A k \in DOMAIN v.entries : IsJsonValue(v.entries[k])
      [] OTHER -> FALSE

\* The character that ends the text of a production.
Closer == [object |-> "}", array |-> "]", string |-> "\""]

\* An iteration of a loop ends the loop or leaves the reader further along
\* the stream than it found it.
LoopProgress ==
    [][(pc = "looping" /\ pc' = "looping")
       => (loop'.l.done \/ loop'.l.reader.r > loop.l.reader.r)]_vars

\* The reader of a running loop never stands beyond the end of the stream,
\* so the iterations that move it forward are at most as many as the stream
\* has runes left; and a loop that has ended returns in one step, with an
\* error or with a value.
CallReturns ==
    [](pc = "looping"
       => /\ loop.l.reader.r <= Len(loop.l.reader.data)
          /\ loop.l.done
             => \/ AfterOf(loop.prod, loop.l).err # NoErr
                \/ AfterOf(loop.prod, loop.l).value.kind
                     \in {"nil", "int64", "float64", "string", "slice", "map"})

\* An object, array or string production returns without error only right
\* after it has read the character that ends its text: end of stream before
\* it is an error.
EndOfStreamIsAnError ==
    [](( /\ pc = "returned"
         /\ loop.prod \in DOMAIN Closer
         /\ err = NoErr )
       => /\ reader.r >= 1
          /\ reader.data[reader.r] = Closer[loop.prod]
          /\ reader.lastRuneSize = 1)

(***************************************************************************)
(* The claims.                                                             *)
(***************************************************************************)
\* C1: in a well-formed object text with a member whose value starts right
\* after the ':', the decode succeeds and every such member's complete
\* value, as decoded on its own, is stored under its key (for the last
\* occurrence of the key).  The code violates this.
C1_ValueRightAfterColon ==
    ( /\ pc = "decoded"
      /\ origin = "given"
      /\ WellFormedObject(doc)
      /\ \E i \in 1..Len(doc.members) : doc.members[i].gap = << >> )
    => /\ err = NoErr
       /\ value.kind = "map"
       /\ \A i \in 1..Len(doc.members) :
            (doc.members[i].gap = << >> /\ LastOccurrence(doc, i))
            => /\ doc.members[i].key \in DOMAIN value.entries
               /\ value.entries[doc.members[i].key] = Decode(doc.members[i].vtext).value

\* C2: decoding the text MarshalValue writes for an object value that a
\* successful decode returned succeeds and yields an object with the same
\* keys and equal values.  The code violates this.
C2_ObjectRoundTrip ==
    (pc = "decoded" /\ origin = "fromDecoded" /\ ref.kind = "map")
    => (err = NoErr /\ value = ref)

\* C3: decoding the text MarshalValue writes for a value without objects
\* succeeds and yields a structurally equal value, an Integer staying an
\* Integer and a Float a Float.  The code violates this.
C3_RoundTripWithoutObjects ==
    (pc = "decoded" /\ origin = "fromBuilt" /\ ~HasObject(ref))
    => (err = NoErr /\ value = ref)

\* C4: an array text whose last element is followed by ',' and then, after
\* optional whitespace, ']' makes the decode fail.  The code violates this.
C4_ArrayTrailingCommaRejected ==
    ( /\ pc = "decoded"
      /\ origin = "given"
      /\ doc.family = "array"
      /\ Len(doc.elems) >= 1
      /\ doc.tail # << >> )
    => err # NoErr

\* C5: on 01 the number scan stops after the 0 and pushes the 1 back, and
\* the enclosing production rejects the input: the top-level decode of 01
\* fails, an array with element 01 fails, an object with member value 01
\* fails.  The code violates this.
C5_LeadingZeroRejected ==
    /\ (pc = "scanned" /\ reader.data = <<"0", "1">>)
       => (err = NoErr /\ value = Int64Value(0) /\ reader.r = 1)
    /\ (pc = "decoded" /\ origin = "given" /\ reader.data = <<"0", "1">>)
       => err # NoErr
    /\ ( /\ pc = "decoded"
         /\ origin = "given"
         /\ doc.family = "array"
         /\ \E i \in 1..Len(doc.elems) : doc.elems[i] = <<"0", "1">> )
       => err # NoErr
    /\ ( /\ pc = "decoded"
         /\ origin = "given"
         /\ doc.family = "object"
         /\ \E i \in 1..Len(doc.members) : doc.members[i].vtext = <<"0", "1">> )
       => err # NoErr

\* C6: when an object text with a key that occurs more than once decodes,
\* the object has one entry for each key of the text, holding the value of
\* the key's last occurrence as decoded on its own.  The code violates this.
C6_DuplicateKeyLastWins ==
    ( /\ pc = "decoded"
      /\ origin = "given"
      /\ doc.family = "object"
      /\ HasDuplicateKey(doc)
      /\ err = NoErr )
    => /\ value.kind = "map"
       /\ DOMAIN value.entries = {doc.members[i].key : i \in 1..Len(doc.members)}
       /\ \A i \in 1..Len(doc.members) :
            LastOccurrence(doc, i)
            => value.entries[doc.members[i].key] = Decode(doc.members[i].vtext).value

\* C7: when UnmarshalNumber succeeds the value is an int64 if and only if
\* the scanned token has none of '.', 'e', 'E', and a float64 otherwise;
\* 0 and -0 give Integer 0, -3 gives Integer -3, 1.5e2 gives the Float 150.
C7_IntegerIffNoPointOrExponent ==
    (pc = "scanned" /\ err = NoErr)
    => /\ value.kind \in {"int64", "float64"}
       /\ value.kind = "int64" <=> ~ContainsAny(Consumed, {".", "e", "E"})
       /\ value.kind = "float64" <=> ContainsAny(Consumed, {".", "e", "E"})
       /\ reader.data \in {<<"0">>, <<"-", "0">>} => value = Int64Value(0)
       /\ reader.data = <<"-", "3">> => value = Int64Value(-3)
       /\ reader.data = <<"1", ".", "5", "e", "2">>
          => value = Float64Value(FALSE, 15, 1)

C7_Witness ==
    /\ pc = "scanned"
    /\ err = NoErr
    /\ reader.data = <<"1", ".", "5", "e", "2">>
    /\ value.kind = "float64"

\* C8: after a successful top-level UnmarshalValue the reader has consumed
\* the value and the whitespace after it and nothing more: what was consumed
\* decodes on its own to the same value, the next rune is no whitespace, and
\* when other content follows the value the decode succeeds with the value
\* and the caller's next read returns the first rune of that content.
C8_ConsumesValueAndWhitespaceOnly ==
    /\ (pc = "decoded" /\ origin = "given" /\ err = NoErr)
       => /\ reader.r < Len(reader.data) => ~isJsonWhitespace(reader.data[reader.r + 1])
          /\ Decode(Consumed).err = NoErr
          /\ Decode(Consumed).value = value
          /\ Decode(Consumed).reader.r = reader.r
    /\ (pc = "read" /\ err = NoErr)
       => IF rune.err = NoErr
          THEN rune.r = reader.data[reader.r] /\ ~isJsonWhitespace(rune.r)
          ELSE rune.err = EOF /\ reader.r = Len(reader.data)
    /\ ( /\ pc \in {"decoded", "read"}
         /\ origin = "given"
         /\ doc.family = "followed"
         /\ ~ExtendsNumber(doc) )
       => /\ err = NoErr
          /\ value = Decode(doc.core).value
          /\ pc = "decoded" => reader.r = Len(doc.core) + Len(doc.gap)
          /\ pc = "read" => rune = [r |-> doc.rest[1], err |-> NoErr]

C8_Witness ==
    /\ pc = "read"
    /\ doc.family = "followed"
    /\ doc.core = <<"1", "2">>
    /\ doc.gap = <<" ", "\n">>
    /\ value = Int64Value(12)
    /\ rune = [r |-> "x", err |-> NoErr]

\* C9: a text that decodes, with whitespace put before and after it,
\* decodes to the same value.  The code violates this.
C9_WhitespacePaddingIgnored ==
    (pc = "decoded" /\ origin = "padded") => (err = NoErr /\ value = ref)

\* C10: what MarshalValue writes without error for an array is '[', the
\* texts of the elements in sequence order with one ',' between each two,
\* ']'; for an object '{', the "key":value pairs with one ',' between each
\* two, '}'; [] and {} for the empty ones; and no whitespace outside string
\* content.
C10_CompactContainers ==
    (pc = "encoded" /\ err = NoErr)
    => /\ ref.kind = "slice" => writer.out \in SliceTexts(ref.elems)
       /\ ref.kind = "map" => writer.out \in ObjectTexts(ref.entries)
       /\ ref = SliceValue(<< >>) => writer.out = <<"[", "]">>
       /\ ref = MapValue(<< >>) => writer.out = <<"{", "}">>
       /\ NoBareWhitespace(writer.out)

C10_Witness ==
    /\ pc = "encoded"
    /\ err = NoErr
    /\ ref.kind = "slice"
    /\ Len(ref.elems) = 2
    /\ ref.elems[1].kind = "map"
    /\ DOMAIN ref.elems[1].entries = Keys
    /\ \E k \in Keys : ref.elems[1].entries[k] = StringValue(<<"a", " ", "b">>)

\* C11: what MarshalString writes without error for a string is '"', then
\* for each code point in order its two-character escape if it is a double
\* quote, backslash, backspace, form feed, newline, carriage return or tab
\* and the code point itself otherwise, then '"'; on a writer that does not
\* fail it writes without error.
C11_StringEscapes ==
    (pc = "encoded" /\ ref.kind = "string")
    => /\ writer.failAt = NoFail => err = NoErr
       /\ err = NoErr => writer.out = StringText(ref.s)

C11_Witness ==
    /\ pc = "encoded"
    /\ err = NoErr
    /\ ref = StringValue(<<"\\", BS, "\f">>)
    /\ writer.out = <<"\"", "\\", "\\", "\\", "b", "\\", "f", "\"">>

\* C12: when a write fails during MarshalValue, at any depth, MarshalValue
\* returns an error, no write is called after the failed one, and what was
\* written before the failure stays written: the output is the start of a
\* text of the value, cut where the writer failed.  A writer that fails
\* before the end of every text of the value makes MarshalValue fail.
C12_WriteFailureStops ==
    /\ (pc = "encoded" /\ writer.err # NoErr)
       => /\ err # NoErr
          /\ writer.late = 0
          /\ Len(writer.out) = writer.failAt
          /\ \E t \in ElementTexts(ref) :
                Len(t) > writer.failAt /\ SubSeq(t, 1, writer.failAt) = writer.out
    /\ ( /\ pc = "encoded"
         /\ writer.failAt # NoFail
         /\ \A t \in ElementTexts(ref) : Len(t) > writer.failAt )
       => (err # NoErr /\ writer.err # NoErr)

C12_Witness ==
    /\ pc = "encoded"
    /\ err # NoErr
    /\ ref = SliceValue(<<MapValue(<<"a">> :> Int64Value(12))>>)
    /\ writer.failAt = 7
    /\ writer.out = <<"[", "{", "\"", "a", "\"", ":", "1">>

\* C13: in an object text where a member's value is followed by a character
\* that is neither '}' nor ',' (a stray character before the '}', or the
\* next member with no ',' before it), the decode fails.  The code violates
\* this.
C13_JunkAfterValueRejected ==
    /\ ( /\ pc = "decoded"
         /\ origin = "given"
         /\ doc.family = "object"
         /\ Len(doc.members) >= 1
         /\ doc.tail = <<" ", "x">> )
       => err # NoErr
    /\ ( /\ pc = "decoded"
         /\ origin = "given"
         /\ doc.family = "plain"
         /\ doc.text = <<"{", "\"", "a", "\"", ":", " ", "1", " ", "\"", "b", "\"", ":",
                         " ", "2", "}">> )
       => err # NoErr

C15_ObjectTrailingCommaRejected ==
    (pc = "decoded" /\ origin = "given")
    => /\ (doc.family = "object" /\ doc.tail = <<",">>) => err # NoErr
       /\ reader.data = <<"{", "\"", "a", "\"", ":", " ", "1", ",", " ", "}">>
          => err # NoErr
       /\ reader.data \in {<<"{", "}">>, <<"{", " ", "}">>}
          => (err = NoErr /\ value = MapValue(<< >>))
       /\ ( /\ doc.family = "object"
            /\ doc.tail = << >>
            /\ Len(doc.members) = 1
            /\ doc.members[1].gap = <<" ">>
            /\ doc.members[1].vtext = <<"1", "2">> )
          => (err = NoErr /\ value = MapValue(doc.members[1].key :> Int64Value(12)))

C15_Witness ==
    /\ pc = "decoded"
    /\ origin = "given"
    /\ reader.data = <<"{", "\"", "a", "\"", ":", " ", "1", "2", ",", "}">>
    /\ err = <<"failed to Unmarshal object key",
               "cannot match string, no opening double quote found">>

\* C16: a string text "\uXXXX" decodes exactly when the four characters
\* after \u are all hexadecimal digits, to the one code point with that hex
\* value; with a sign or another character that is no hexadecimal digit
\* among the four, or with fewer than four characters, the decode fails.
\* The code violates this.
C16_UnicodeEscapeNeedsFourHexDigits ==
    ( /\ pc \in {"decoded", "scannedString"}
      /\ origin = "given"
      /\ doc.family = "unicode" )
    => /\ ( /\ Len(doc.hex) = 4
            /\ \A i \in 1..4 : doc.hex[i] \in HexDigits
            /\ doc.close = <<"\"">> )
          => (err = NoErr /\ value = StringValue(<<RuneOf(HexToNat(doc.hex))>>))
       /\ (Len(doc.hex) < 4 \/ \E i \in 1..Len(doc.hex) : doc.hex[i] \notin HexDigits)
          => err # NoErr

\* C17: UnmarshalString succeeds exactly on a text that opens with '"' and
\* has an unescaped '"' after it with no backslash before that quote followed
\* by a character other than " \ / b f n r t (texts with \u are C16's);
\* then it has read up to that quote, and the result is the characters
\* between the quotes in order, an escaped one as the character it stands
\* for and every other unchanged.  End of stream before the closing quote,
\* right after a backslash included, makes it fail.
C17_StringLexing ==
    (pc = "scannedString" /\ doc.family = "string")
    => /\ err = NoErr <=> IsStringText(reader.data)
       /\ err = NoErr
          => /\ value = StringValue(StringContent(reader.data))
             /\ reader.r = StringEnd(reader.data)

C17_Witness ==
    /\ pc = "scannedString"
    /\ reader.data = <<"\"", "\\", "\"", "/", "\\", "\\", "\\", "n", "\"", "a">>
    /\ err = NoErr
    /\ value = StringValue(<<"\"", "/", "\\", "\n">>)
    /\ reader.r = 9

\* C18: no UnreadRune the decoder calls, in any production and at any
\* depth, fails: each comes right after a successful ReadRune on the reader
\* (bufio refuses an UnreadRune after anything else: after another
\* UnreadRune, after a Read, after a ReadRune that met end of stream), and
\* no error the decoder returns is that of a failed push-back.
C18_UnreadFollowsRead ==
    /\ reader.failedUnreads = 0
    /\ \A i \in 1..Len(err) :
          err[i] \notin {"failed to unread rune", ErrInvalidUnreadRune[1]}

C18_Witness ==
    /\ pc = "decoded"
    /\ origin = "given"
    /\ doc.family = "object"
    /\ Len(doc.members) = 2
    /\ doc.members[1].vtext = <<"[", "1", "]">>
    /\ err = NoErr
    /\ reader.r = Len(reader.data)
    /\ reader.unreads >= 8

\* C19: a value that UnmarshalValue returns without error is, at every
\* depth, of one of the seven types MarshalValue has a case for, and
\* MarshalValue on a writer that does not fail returns no error for it.
C19_DecodedValuesEncode ==
    /\ (pc = "decoded" /\ err = NoErr) => IsJsonValue(value)
    /\ (pc = "encoded" /\ origin = "given" /\ writer.failAt = NoFail)
       => (err = NoErr /\ IsJsonValue(ref))

C19_Witness ==
    /\ pc = "encoded"
    /\ origin = "given"
    /\ writer.failAt = NoFail
    /\ err = NoErr
    /\ ref = MapValue((<<"a">> :> SliceValue(<<Int64Value(1)>>))
                      @@ (<<"b">> :> StringValue(<<"x">>)))

\* C20: on every given text each production returns, with a value or with
\* an error: each iteration of the whitespace, number, string, object and
\* array loops ends the loop or leaves the stream position strictly further
\* along and never beyond its end, so that the loop ends within as many
\* iterations as the stream has runes left (and one more); a loop that has
\* ended returns; and an object, array or string that the end of the stream
\* leaves unfinished returns an error.
C20_DecodeTerminates == LoopProgress /\ CallReturns /\ EndOfStreamIsAnError

C20_Witness ==
    /\ pc = "returned"
    /\ loop.prod = "array"
    /\ reader.data = <<"[", "1", ",", "2">>
    /\ reader.r = 4
    /\ err = <<"failed to read rune", "EOF">>

====
